---- MODULE Spec2Model ----
(***************************************************************************)
(* Giveaway subsystem of the bot: the SQLite store (database_manager.py),  *)
(* the eligibility evaluator, the entry button, the weighted draw, the     *)
(* periodic scan and the operator commands (cogs/giveaway.py).             *)
(*                                                                         *)
(* The bot runs on one asyncio event loop.  A handler runs without         *)
(* interruption from one real suspension point (an await that performs     *)
(* I/O) to the next.  Each task has a frame whose pc says where it is; a   *)
(* pc in SyncPcs means the task holds the event loop and nothing else may  *)
(* run until it suspends.  "await self.check_eligibility(...)" never       *)
(* suspends (the coroutine contains no await), so it is not a suspension   *)
(* point.                                                                  *)
(***************************************************************************)
EXTENDS Integers, Sequences, FiniteSets, TLC

\* ------------------------------------------------------------------ bounds
MaxWinnerCount == 2
MaxWeight == 1
MaxBonus == 2
MaxTime == 1
MaxPending == 2
MaxLedgerWeight == 2
MaxAgeDays == 1
MaxFaultRows == 2

\* ------------------------------------------------------ program constants
MaxDurationMinutes == 10080
MaxWinners == 10

\* ------------------------------------------------------------ value sets
Users == {"u1", "u2"}
Roles == {"r1"}
GiveawayIds == {"g1", "g2"}
Guilds == {"G1", "G2"}
HomeGuild == "G1"
Tasks == {"timer", "cmd"}
PrizeLists == {<<"A">>, <<"A", "B">>}
Durations == {1}

VARIABLES
    giveaways,        \* table giveaways: giveaway_id -> row (domain = stored ids)
    entries,          \* table giveaway_entries: rows in insertion order
    winners,          \* table giveaway_winners: rows in insertion order
    now,              \* datetime.utcnow(), in scan periods
    bot_guilds,       \* bot.guilds: ids of the guilds the bot is in
    members,          \* member cache of HomeGuild: user id -> Member attributes
    frames,           \* task -> frame (position of the scan loop / of a command)
    pending,          \* <<giveaway, user>> -> button presses suspended in defer(),
                      \*   each with the entry_count stored when it was delivered
    calls,            \* history: <<giveaway, user>> -> the add_entry calls made,
                      \*   in order: bonus_count, and the entry_count stored
                      \*   when the request was delivered (seen)
    eligible_at_draw, \* history: giveaway -> entrants that passed a draw-time check
    verdict           \* last result of a direct check_eligibility evaluation

vars == <<giveaways, entries, winners, now, bot_guilds, members, frames,
          pending, calls, eligible_at_draw, verdict>>

store == <<giveaways, entries, winners>>

\* ------------------------------------------------------------- utilities
Min(a, b) == IF a < b THEN a ELSE b

Range(s) == {s[i] : i \in DOMAIN s}

Pairs == GiveawayIds \X Users

\* ------------------------------------------------------- identity provider
\* bot.get_guild(id): {} is None
GetGuild(guild_id) == IF guild_id \in bot_guilds THEN {guild_id} ELSE {}

\* guild.get_member(id): {} is None, else the discord.Member
GetMember(user_id) ==
    IF user_id \in DOMAIN members
    THEN {[kind |-> "Member", id |-> user_id,
           roles |-> members[user_id].roles,
           account_age |-> members[user_id].account_age,
           joined |-> members[user_id].joined]}
    ELSE {}

\* ------------------------------------------------------ check_eligibility
Return(ok, reason) == [kind |-> "return", eligible |-> ok, reason |-> reason]

Raise(exc) == [kind |-> "raise", eligible |-> FALSE, reason |-> exc]

\* lines 130-156: the checks after the two user lists
CheckRolesAndAges(user, giveaway) ==
    IF giveaway.requires_roles # {}
       /\ ~(\E role_id \in giveaway.requires_roles : role_id \in user.roles)
    THEN Return(FALSE, "no required role")
    ELSE IF giveaway.exclude_roles # {}
            /\ (\E role_id \in giveaway.exclude_roles : role_id \in user.roles)
    THEN Return(FALSE, "excluded role")
    ELSE IF giveaway.min_account_age_days # 0
            /\ user.account_age < giveaway.min_account_age_days
    THEN Return(FALSE, "account too new")
    ELSE IF giveaway.min_server_join_days # 0 /\ user.joined = {}
    THEN Raise("TypeError")      \* utcnow() - None, line 152
    ELSE IF giveaway.min_server_join_days # 0
            /\ (\E join_age \in user.joined : join_age < giveaway.min_server_join_days)
    THEN Return(FALSE, "joined too recently")
    ELSE Return(TRUE, "")

CheckMemberWhitelistOverrides(user, giveaway) ==
    IF giveaway.whitelist_users # {} /\ user.id \notin giveaway.whitelist_users
    THEN Return(FALSE, "not whitelisted")
    ELSE IF giveaway.whitelist_users # {}
    THEN Return(TRUE, "")
    ELSE IF giveaway.blacklist_users # {} /\ user.id \in giveaway.blacklist_users
    THEN Return(FALSE, "blacklisted")
    ELSE CheckRolesAndAges(user, giveaway)

CheckMemberBlacklistFirst(user, giveaway) ==
    IF giveaway.blacklist_users # {} /\ user.id \in giveaway.blacklist_users
    THEN Return(FALSE, "blacklisted")
    ELSE IF giveaway.whitelist_users # {} /\ user.id \notin giveaway.whitelist_users
    THEN Return(FALSE, "not whitelisted")
    ELSE CheckRolesAndAges(user, giveaway)

\* lines 120-156: the checks on a discord.Member, in the order of the code
CheckMember(user, giveaway) ==
    IF giveaway.whitelist_users # {} /\ user.id \notin giveaway.whitelist_users
    THEN Return(FALSE, "not whitelisted")
    ELSE IF giveaway.blacklist_users # {} /\ user.id \in giveaway.blacklist_users
    THEN Return(FALSE, "blacklisted")
    ELSE CheckRolesAndAges(user, giveaway)

\* lines 108-156
CheckEligibility(user, giveaway) ==
    IF user.kind = "User"
    THEN IF GetGuild(giveaway.guild_id) = {}
         THEN Return(FALSE, "could not verify membership")
         ELSE IF GetMember(user.id) = {}
         THEN Return(FALSE, "not in server")
         ELSE CheckMember(CHOOSE m \in GetMember(user.id) : TRUE, giveaway)
    ELSE CheckMember(user, giveaway)

\* ------------------------------------------------------------ the store
\* create_giveaway, lines 161-184: the inserted row (status defaults to
\* 'active', paused_at and ended_at to NULL; {} is NULL)
NewGiveaway(guild_id, winner_count, prizes, duration, rules) ==
    [guild_id |-> guild_id, status |-> "active",
     winner_count |-> winner_count, prizes |-> prizes,
     requires_roles |-> rules.requires_roles,
     exclude_roles |-> rules.exclude_roles,
     min_account_age_days |-> rules.min_account_age_days,
     min_server_join_days |-> rules.min_server_join_days,
     whitelist_users |-> rules.whitelist_users,
     blacklist_users |-> rules.blacklist_users,
     created_at |-> now, ends_at |-> now + duration,
     paused_at |-> {}, ended_at |-> {}]

\* update_giveaway(giveaway_id, status=..., ended_at=...), lines 212-240
UpdateGiveawayEndedAtOnly(tbl, giveaway_id, status, ended_at) ==
    [tbl EXCEPT ![giveaway_id].ended_at = {ended_at}]

UpdateGiveaway(tbl, giveaway_id, status, ended_at) ==
    [id \in DOMAIN tbl |->
        IF id = giveaway_id
        THEN [tbl[id] EXCEPT !.status = status, !.ended_at = {ended_at}]
        ELSE tbl[id]]

\* get_entries, lines 295-305
EntriesOf(tbl, giveaway_id) ==
    SelectSeq(tbl, LAMBDA e : e.giveaway_id = giveaway_id)

GetEntries(giveaway_id) == EntriesOf(entries, giveaway_id)

\* the rows add_entry's SELECT matches, lines 271-275
EntryRows(tbl, giveaway_id, user_id) ==
    {i \in DOMAIN tbl : tbl[i].giveaway_id = giveaway_id /\ tbl[i].user_id = user_id}

\* add_entry, lines 265-290
AddEntryOverwrite(tbl, giveaway_id, user_id, bonus_count) ==
    LET rows == EntryRows(tbl, giveaway_id, user_id) IN
    IF rows # {}
    THEN [i \in DOMAIN tbl |->
             IF i \in rows THEN [tbl[i] EXCEPT !.entry_count = bonus_count]
             ELSE tbl[i]]
    ELSE Append(tbl, [giveaway_id |-> giveaway_id, user_id |-> user_id,
                      entry_count |-> bonus_count])

AddEntryStaleRead(tbl, giveaway_id, user_id, bonus_count) ==
    LET rows == EntryRows(tbl, giveaway_id, user_id)
        waiting == pending[<<giveaway_id, user_id>>]
        existing == IF waiting # <<>> THEN Head(waiting)
                    ELSE IF rows = {} THEN 0
                    ELSE tbl[CHOOSE i \in rows : TRUE].entry_count
    IN IF existing > 0
       THEN [i \in DOMAIN tbl |->
                IF i \in rows THEN [tbl[i] EXCEPT !.entry_count = existing + bonus_count]
                ELSE tbl[i]]
       ELSE Append(tbl, [giveaway_id |-> giveaway_id, user_id |-> user_id,
                         entry_count |-> bonus_count])

AddEntry(tbl, giveaway_id, user_id, bonus_count) ==
    LET rows == EntryRows(tbl, giveaway_id, user_id) IN
    IF rows # {}
    THEN LET existing == tbl[CHOOSE i \in rows : \A j \in rows : i <= j]
             new_count == existing.entry_count + bonus_count
         IN [i \in DOMAIN tbl |->
                IF i \in rows THEN [tbl[i] EXCEPT !.entry_count = new_count]
                ELSE tbl[i]]
    ELSE Append(tbl, [giveaway_id |-> giveaway_id, user_id |-> user_id,
                      entry_count |-> bonus_count])

\* add_winner, lines 310-321
AddWinnerFirstOnly(tbl, giveaway_id, user_id, prize, position) ==
    IF position > 1 THEN tbl
    ELSE Append(tbl, [giveaway_id |-> giveaway_id, user_id |-> user_id,
                      prize |-> prize, position |-> position])

AddWinner(tbl, giveaway_id, user_id, prize, position) ==
    Append(tbl, [giveaway_id |-> giveaway_id, user_id |-> user_id,
                 prize |-> prize, position |-> position])

\* the winner rows of a giveaway, in insertion order
WinnersOf(tbl, giveaway_id) ==
    SelectSeq(tbl, LAMBDA w : w.giveaway_id = giveaway_id)

WinnerRows(giveaway_id) == WinnersOf(winners, giveaway_id)

\* entry_count of a participant (0: no row)
Weight(giveaway_id, user_id) ==
    LET rows == EntryRows(entries, giveaway_id, user_id) IN
    IF rows = {} THEN 0 ELSE entries[CHOOSE i \in rows : TRUE].entry_count

\* ---------------------------------------------------------------- frames
\* the pcs at which a task holds the event loop.  "scan" and "loop" are code
\* between two suspension points.  "rr_dm" and "reply" are the sends that end a
\* command: the handler touches no state after them, so nothing that runs
\* during them can be observed, and they are completed before anything else
SyncPcs == {"scan", "loop", "rr_dm", "reply"}

\* args are the arguments of the command being answered.
\* found, failed, dm_failed and picks are history: the giveaways the running
\* scan read as due, the giveaways whose end_giveaway ended in its except
\* clause (line 303), whether a winner's DM raised in the running draw, and
\* the participants random.choices returned in the running draw, in order
IdleFrame ==
    [pc |-> "idle", gid |-> "", queue |-> <<>>, position |-> 0, target |-> 0,
     selected |-> {}, entries |-> <<>>, pick |-> "", msg |-> "",
     found |-> {}, failed |-> {}, dm_failed |-> FALSE, args |-> <<>>,
     picks |-> <<>>]

\* the tasks that hold the event loop (at most one)
Running == {t \in Tasks : frames[t].pc \in SyncPcs}

Quiet == Running = {}

\* ------------------------------------------------------------------ Init
Member(roles, account_age, joined) ==
    [roles |-> roles, account_age |-> account_age, joined |-> joined]

InitStore ==
    /\ giveaways = [id \in {} |-> {}]
    /\ entries = <<>>
    /\ winners = <<>>
    /\ now = 0
    /\ frames = [t \in Tasks |-> IdleFrame]
    /\ pending = [p \in Pairs |-> <<>>]
    /\ calls = [p \in Pairs |-> <<>>]
    /\ eligible_at_draw = [g \in GiveawayIds |-> {}]
    /\ verdict = [giveaway_id |-> "", user_id |-> "", kind |-> "",
                  res |-> Return(TRUE, "")]

Init ==
    /\ InitStore
    /\ bot_guilds = Guilds
    /\ members = [u \in Users |-> Member({}, MaxAgeDays, {MaxAgeDays})]

\* ----------------------------------------------------------- environment
\* the clock advances.  Time is followed while a giveaway is active: the
\* code reads the clock only to stamp a row and to compare it with the
\* ends_at of an active giveaway
Tick ==
    /\ now < MaxTime
    /\ \E id \in DOMAIN giveaways : giveaways[id].status = "active"
    /\ now' = now + 1
    /\ UNCHANGED <<store, bot_guilds, members, frames, pending, calls,
                   eligible_at_draw, verdict>>

\* gateway event: a member leaves the guild (the cache drops the member)
MemberRemove(u) ==
    /\ Quiet
    /\ u \in DOMAIN members
    /\ members' = [x \in DOMAIN members \ {u} |-> members[x]]
    /\ UNCHANGED <<store, now, bot_guilds, frames, pending, calls,
                   eligible_at_draw, verdict>>

\* gateway event: a member's roles change
MemberUpdate(u, roles) ==
    /\ Quiet
    /\ u \in DOMAIN members
    /\ roles # members[u].roles
    /\ members' = [members EXCEPT ![u].roles = roles]
    /\ UNCHANGED <<store, now, bot_guilds, frames, pending, calls,
                   eligible_at_draw, verdict>>

\* ---------------------------------------------------------------- create
NoRules ==
    [requires_roles |-> {}, exclude_roles |-> {}, min_account_age_days |-> 0,
     min_server_join_days |-> 0, whitelist_users |-> {}, blacklist_users |-> {}]

\* the id of a new giveaway is a fresh uuid4 (giveaway.py line 337), and
\* giveaway_id is UNIQUE in the table (database_manager.py line 34): an
\* INSERT never replaces a stored row
FreshIdOrStored(g) == TRUE

FreshId(g) == g \notin DOMAIN giveaways

\* db.create_giveaway(...) with a fresh giveaway_id
CreateGiveaway(g, guild_id, winner_count, prizes, duration, rules) ==
    /\ Quiet
    /\ FreshId(g)
    /\ guild_id \in bot_guilds
    /\ giveaways' = [id \in DOMAIN giveaways \cup {g} |->
                        IF id = g
                        THEN NewGiveaway(guild_id, winner_count, prizes, duration, rules)
                        ELSE giveaways[id]]
    /\ UNCHANGED <<entries, winners, now, bot_guilds, members, frames, pending,
                   calls, eligible_at_draw, verdict>>

\* ---------------------------------------------------------- enter_button
\* lines 33-49, run without suspension: the new entries table and the bonus
\* count of the add_entry call made, if any
EnterOutcomeNoLookup(g, u, seen) ==
    [entries |-> AddEntry(entries, g, u, 1),
     added |-> <<[bonus_count |-> 1, seen |-> seen]>>]

EnterOutcomeNoStatusCheck(g, u, seen) ==
    IF g \notin DOMAIN giveaways
    THEN [entries |-> entries, added |-> <<>>]
    ELSE LET user == CHOOSE m \in GetMember(u) : TRUE
             res == CheckEligibility(user, giveaways[g])
         IN IF res.kind = "return" /\ res.eligible
            THEN [entries |-> AddEntry(entries, g, u, 1),
                  added |-> <<[bonus_count |-> 1, seen |-> seen]>>]
            ELSE [entries |-> entries, added |-> <<>>]

EnterOutcomeUntilEndTime(g, u, seen) ==
    IF g \notin DOMAIN giveaways
    THEN [entries |-> entries, added |-> <<>>]
    ELSE IF giveaways[g].status # "active" \/ now >= giveaways[g].ends_at
    THEN [entries |-> entries, added |-> <<>>]
    ELSE LET user == CHOOSE m \in GetMember(u) : TRUE
             res == CheckEligibility(user, giveaways[g])
         IN IF res.kind = "return" /\ res.eligible
            THEN [entries |-> AddEntry(entries, g, u, 1),
                  added |-> <<[bonus_count |-> 1, seen |-> seen]>>]
            ELSE [entries |-> entries, added |-> <<>>]

EnterOutcome(g, u, seen) ==
    IF g \notin DOMAIN giveaways
    THEN [entries |-> entries, added |-> <<>>]
    ELSE IF giveaways[g].status # "active"
    THEN [entries |-> entries, added |-> <<>>]
    ELSE LET user == CHOOSE m \in GetMember(u) : TRUE
             res == CheckEligibility(user, giveaways[g])
         IN IF res.kind = "return" /\ res.eligible
            THEN [entries |-> AddEntry(entries, g, u, 1),
                  added |-> <<[bonus_count |-> 1, seen |-> seen]>>]
            ELSE [entries |-> entries, added |-> <<>>]

\* a member presses the button; the handler runs to its reply
EnterButton(g, u) ==
    /\ Quiet
    /\ u \in DOMAIN members
    /\ Weight(g, u) < MaxWeight
    /\ entries' = EnterOutcome(g, u, Weight(g, u)).entries
    /\ calls' = [calls EXCEPT ![<<g, u>>] = @ \o EnterOutcome(g, u, Weight(g, u)).added]
    /\ UNCHANGED <<giveaways, winners, now, bot_guilds, members, frames,
                   pending, eligible_at_draw, verdict>>

\* ---------------------------------------------------------- end_giveaway
\* line 256
PrizeFor(prizes, position) ==
    IF position < Len(prizes) THEN prizes[position + 1] ELSE prizes[Len(prizes)]

\* line 245: len(set(e['user_id'] for e in entries))
DistinctUsers(ents) == {ents[i].user_id : i \in DOMAIN ents}

\* line 247
EligibleEntriesKeepSelected(ents, selected_users) == ents

EligibleEntries(ents, selected_users) ==
    SelectSeq(ents, LAMBDA e : e.user_id \notin selected_users)

\* line 253: random.choices picks an entry of positive weight
Choices(pool) == {pool[i] : i \in {j \in DOMAIN pool : pool[j].entry_count > 0}}

\* the frame of task t once end_giveaway has returned to its caller:
\* the scan goes on with its loop (line 78), the command sends its reply
\* (line 415)
ReturnedFrame(t, f) ==
    IF t = "timer"
    THEN [IdleFrame EXCEPT !.pc = "scan", !.queue = f.queue, !.found = f.found,
                           !.failed = f.failed]
    ELSE [IdleFrame EXCEPT !.pc = "reply", !.gid = f.gid, !.msg = "ended",
                           !.failed = f.failed]

\* lines 303-304: an exception inside end_giveaway is logged and the call
\* returns normally
FailedFrameStopsScan(t, f) ==
    [ReturnedFrame(t, [f EXCEPT !.failed = @ \cup {f.gid}]) EXCEPT !.queue = <<>>]

FailedFrame(t, f) == ReturnedFrame(t, [f EXCEPT !.failed = @ \cup {f.gid}])

\* the frame of a task suspended in channel.send
PostFrame(f, msg) ==
    [IdleFrame EXCEPT !.pc = "post", !.gid = f.gid, !.queue = f.queue, !.msg = msg,
                      !.found = f.found, !.failed = f.failed,
                      !.dm_failed = f.dm_failed, !.picks = f.picks]

PostOptionsNoEmptyPath(t, f) ==
    {PostFrame(f, IF f.selected # {} THEN "winners" ELSE "no eligible winners"),
     ReturnedFrame(t, f)}

\* lines 229-238 and 281-301: the announcement.  A missing guild raises
\* (caught at line 303), a missing channel skips the send; otherwise the
\* task suspends in channel.send
PostOptions(t, f) ==
    IF GetGuild(giveaways[f.gid].guild_id) = {}
    THEN {FailedFrame(t, f)}
    ELSE {PostFrame(f, IF f.entries = <<>> THEN "no one entered"
                       ELSE IF f.selected # {} THEN "winners"
                       ELSE "no eligible winners"),
          ReturnedFrame(t, f)}

\* the loop header, line 245, for the iteration at `position`
LoopOrPostOneMore(t, f, position) ==
    IF position <= f.target
    THEN {[f EXCEPT !.pc = "loop", !.position = position]}
    ELSE PostOptions(t, [f EXCEPT !.position = position])

LoopOrPost(t, f, position) ==
    IF position < f.target
    THEN {[f EXCEPT !.pc = "loop", !.position = position]}
    ELSE PostOptions(t, [f EXCEPT !.position = position])

\* the entrants of the draw that pass the draw-time check now (lines 259-264)
EligibleNow(f) ==
    {u \in DistinctUsers(f.entries) :
        /\ GetMember(u) # {}
        /\ LET res == CheckEligibility(CHOOSE m \in GetMember(u) : TRUE,
                                       giveaways[f.gid])
           IN res.kind = "return" /\ res.eligible}

\* line 218: nothing to end
NothingToEndUnlessStored(g) == g \notin DOMAIN giveaways

NothingToEndIfWinners(g) == g \notin DOMAIN giveaways \/ WinnerRows(g) # <<>>

NothingToEnd(g) == g \notin DOMAIN giveaways \/ giveaways[g].status = "ended"

\* lines 216-245: end_giveaway called by task t, whose frame is `base`.
\* write_ok says whether the UPDATE of line 222 is committed: when it fails,
\* update_giveaway logs the error and returns False (database_manager.py
\* lines 241-243), and end_giveaway, which does not look at the returned
\* value, goes on
EndGiveawayCallIn(t, base, g, write_ok) ==
    IF NothingToEnd(g)
    THEN /\ frames' = [frames EXCEPT ![t] = ReturnedFrame(t, [base EXCEPT !.gid = g])]
         /\ UNCHANGED store
    ELSE /\ giveaways' = IF write_ok THEN UpdateGiveaway(giveaways, g, "ended", now)
                         ELSE giveaways
         /\ UNCHANGED <<entries, winners>>
         /\ LET ents == GetEntries(g)
                f == [base EXCEPT
                        !.gid = g, !.position = 0, !.selected = {}, !.entries = ents,
                        !.dm_failed = FALSE,
                        !.target = Min(giveaways[g].winner_count,
                                       Cardinality(DistinctUsers(ents)))]
            IN IF ents = <<>>
               THEN \E nf \in PostOptions(t, f) : frames' = [frames EXCEPT ![t] = nf]
               ELSE frames' = [frames EXCEPT ![t] = [f EXCEPT !.pc = "loop"]]

\* end_giveaway with a store that commits its writes
EndGiveawayCall(t, base, g) == EndGiveawayCallIn(t, base, g, TRUE)

\* lines 259-264: what becomes of a selection: "raise" (no guild object, or
\* check_eligibility raised; caught at line 303), "discard" (not a member, or
\* not eligible) or "accept"
DrawOutcomeNoCheck(winner_id, giveaway) ==
    IF GetGuild(giveaway.guild_id) = {} THEN "raise"
    ELSE IF GetMember(winner_id) = {} THEN "discard"
    ELSE "accept"

DrawOutcome(winner_id, giveaway) ==
    IF GetGuild(giveaway.guild_id) = {} THEN "raise"
    ELSE IF GetMember(winner_id) = {} THEN "discard"
    ELSE LET res == CheckEligibility(CHOOSE m \in GetMember(winner_id) : TRUE,
                                     giveaway)
         IN IF res.kind = "raise" THEN "raise"
            ELSE IF res.eligible THEN "accept"
            ELSE "discard"

\* lines 265-267: the tables after a selection is accepted.  add_winner
\* inserts a Winner row; selected_users is a local set and the entries read
\* at line 225 are only filtered into a new list (line 247), so the entries
\* table is not written
AcceptWritesConsumeEntry(g, winner_id, prize, position) ==
    [entries |-> SelectSeq(entries, LAMBDA e : ~(e.giveaway_id = g /\ e.user_id = winner_id)),
     winners |-> AddWinner(winners, g, winner_id, prize, position)]

AcceptWrites(g, winner_id, prize, position) ==
    [entries |-> entries,
     winners |-> AddWinner(winners, g, winner_id, prize, position)]

\* lines 246-278: one iteration of the selection loop
DrawIteration(t) ==
    /\ frames[t].pc = "loop"
    /\ LET f == frames[t]
           g == f.gid
           giveaway == giveaways[g]
           pool == EligibleEntries(f.entries, f.selected)
       IN IF pool = <<>> \/ Choices(pool) = {}
          THEN \* break (line 249); random.choices raises on a zero total weight
               /\ \E nf \in PostOptions(t, f) : frames' = [frames EXCEPT ![t] = nf]
               /\ UNCHANGED <<entries, winners, eligible_at_draw>>
          ELSE \E winner_entry \in Choices(pool) :
               LET winner_id == winner_entry.user_id
                   prize == PrizeFor(giveaway.prizes, f.position)
                   outcome == DrawOutcome(winner_id, giveaway)
               IN IF outcome = "raise"
                  THEN /\ frames' = [frames EXCEPT ![t] = FailedFrame(t, f)]
                       /\ UNCHANGED <<entries, winners, eligible_at_draw>>
                  ELSE IF outcome = "accept"
                  THEN \* add_winner, then suspended in user.send (line 276)
                       /\ winners' = AcceptWrites(g, winner_id, prize,
                                                f.position + 1).winners
                       /\ entries' = AcceptWrites(g, winner_id, prize,
                                                f.position + 1).entries
                       /\ frames' = [frames EXCEPT ![t] =
                             [f EXCEPT !.pc = "dm", !.selected = @ \cup {winner_id},
                                       !.picks = Append(@, winner_id)]]
                       /\ eligible_at_draw' =
                             [eligible_at_draw EXCEPT ![g] = @ \cup EligibleNow(f)]
                  ELSE /\ \E nf \in LoopOrPost(t, [f EXCEPT !.picks = Append(@, winner_id)],
                                                 f.position + 1) :
                             frames' = [frames EXCEPT ![t] = nf]
                       /\ eligible_at_draw' =
                             [eligible_at_draw EXCEPT ![g] = @ \cup EligibleNow(f)]
                       /\ UNCHANGED <<entries, winners>>
    /\ UNCHANGED <<giveaways, now, bot_guilds, members, pending, calls, verdict>>

\* lines 270-278: user.send returns, or raises and the exception is
\* swallowed (lines 277-278); either way the loop goes to its next iteration
AfterDmAbortOnRaise(t, f, raised) ==
    IF raised THEN {FailedFrame(t, f)}
    ELSE LoopOrPost(t, f, f.position + 1)

AfterDm(t, f, raised) ==
    LoopOrPost(t, [f EXCEPT !.dm_failed = @ \/ raised], f.position + 1)

DmDone(t) ==
    /\ Quiet
    /\ frames[t].pc = "dm"
    /\ \E raised \in BOOLEAN :
          \E nf \in AfterDm(t, frames[t], raised) :
             frames' = [frames EXCEPT ![t] = nf]
    /\ UNCHANGED <<store, now, bot_guilds, members, pending, calls,
                   eligible_at_draw, verdict>>

\* lines 238, 294, 301: channel.send returns or raises (caught at line 303)
PostDone(t) ==
    /\ Quiet
    /\ frames[t].pc = "post"
    /\ \E raised \in BOOLEAN :
          frames' = [frames EXCEPT ![t] =
                        IF raised THEN FailedFrame(t, frames[t])
                        ELSE ReturnedFrame(t, frames[t])]
    /\ UNCHANGED <<store, now, bot_guilds, members, pending, calls,
                   eligible_at_draw, verdict>>

\* ------------------------------------------------------- check_giveaways
\* get_active_giveaways, lines 251-260: the rows read by the scan, newest
\* first (rows of equal created_at in either order)
Snapshot(id) ==
    [giveaway_id |-> id, status |-> giveaways[id].status,
     ends_at |-> giveaways[id].ends_at, paused_at |-> giveaways[id].paused_at]

ActiveGiveaways ==
    {id \in DOMAIN giveaways :
        giveaways[id].guild_id \in bot_guilds /\ giveaways[id].status = "active"}

ScanOrdersFirstRowOnly ==
    {SubSeq(q, 1, Min(1, Len(q))) :
        q \in {r \in [1..Cardinality(ActiveGiveaways) -> ActiveGiveaways] :
                  /\ Range(r) = ActiveGiveaways
                  /\ \A i, j \in DOMAIN r :
                        i < j => giveaways[r[i]].created_at >= giveaways[r[j]].created_at}}

ScanOrders ==
    {q \in [1..Cardinality(ActiveGiveaways) -> ActiveGiveaways] :
        /\ Range(q) = ActiveGiveaways
        /\ \A i, j \in DOMAIN q :
              i < j => giveaways[q[i]].created_at >= giveaways[q[j]].created_at}

\* lines 79-84: the scan ends a giveaway it read when the row says active,
\* the clock has reached ends_at and paused_at is not set
DueIgnoringPause(giveaway) ==
    giveaway.status = "active" /\ now >= giveaway.ends_at

Due(giveaway) ==
    /\ giveaway.status = "active"
    /\ now >= giveaway.ends_at
    /\ giveaway.paused_at = {}

\* lines 76-77: the loop fires and reads the active giveaways
CheckGiveaways ==
    /\ Quiet
    /\ frames["timer"].pc = "idle"
    /\ \E q \in ScanOrders :
          frames' = [frames EXCEPT !["timer"] =
                        [IdleFrame EXCEPT
                            !.pc = "scan",
                            !.queue = [i \in DOMAIN q |-> Snapshot(q[i])],
                            !.found = {id \in ActiveGiveaways : Due(Snapshot(id))}]]
    /\ UNCHANGED <<store, now, bot_guilds, members, pending, calls,
                   eligible_at_draw, verdict>>

\* lines 78-85: the scan takes the next giveaway it read
ScanStepIn(write_ok) ==
    /\ frames["timer"].pc = "scan"
    /\ LET f == frames["timer"] IN
       IF f.queue = <<>>
       THEN /\ frames' = [frames EXCEPT !["timer"] = IdleFrame]
            /\ UNCHANGED store
       ELSE LET giveaway == Head(f.queue)
                base == [f EXCEPT !.queue = Tail(f.queue)]
            IN IF Due(giveaway)
               THEN EndGiveawayCallIn("timer", base, giveaway.giveaway_id, write_ok)
               ELSE /\ frames' = [frames EXCEPT !["timer"] = base]
                    /\ UNCHANGED store
    /\ UNCHANGED <<now, bot_guilds, members, pending, calls, eligible_at_draw,
                   verdict>>

\* the scan with a store that commits its writes
ScanStep == ScanStepIn(TRUE)

\* -------------------------------------------------------------- commands
Reply(g, msg) == [IdleFrame EXCEPT !.pc = "reply", !.gid = g, !.msg = msg]

\* lines 405-412, 421-428, 468-475: the lookups every command starts with;
\* "" when the command goes on
RejectionNoGuildCheck(g, guild_id) ==
    IF g \notin DOMAIN giveaways THEN "not found" ELSE ""

Rejection(g, guild_id) ==
    IF g \notin DOMAIN giveaways THEN "not found"
    ELSE IF giveaways[g].guild_id # guild_id THEN "not in this server"
    ELSE ""

\* !giveaway end, lines 403-415
EndGiveawayCmd(g, guild_id) ==
    /\ Quiet
    /\ frames["cmd"].pc = "idle"
    /\ guild_id \in bot_guilds
    /\ IF Rejection(g, guild_id) # ""
       THEN /\ frames' = [frames EXCEPT !["cmd"] = Reply(g, Rejection(g, guild_id))]
            /\ UNCHANGED store
       ELSE EndGiveawayCall("cmd", IdleFrame, g)
    /\ UNCHANGED <<now, bot_guilds, members, pending, calls, eligible_at_draw,
                   verdict>>

\* !giveaway reroll, lines 419-446: up to the winner's DM
RerollGiveaway(g, guild_id) ==
    /\ Quiet
    /\ frames["cmd"].pc = "idle"
    /\ guild_id \in bot_guilds
    /\ IF Rejection(g, guild_id) # ""
       THEN frames' = [frames EXCEPT !["cmd"] = Reply(g, Rejection(g, guild_id))]
       ELSE IF GetEntries(g) = <<>>
       THEN frames' = [frames EXCEPT !["cmd"] = Reply(g, "no entries")]
       ELSE \E winner_entry \in Choices(GetEntries(g)) :
               frames' = [frames EXCEPT !["cmd"] =
                  IF GetMember(winner_entry.user_id) # {}
                  THEN [IdleFrame EXCEPT !.pc = "rr_dm", !.gid = g,
                                         !.pick = winner_entry.user_id]
                  ELSE [Reply(g, "reroll") EXCEPT !.pick = "Unknown User"]]
    /\ UNCHANGED <<store, now, bot_guilds, members, pending, calls,
                   eligible_at_draw, verdict>>

\* lines 447-463: the DM returns or raises (swallowed); the result is posted
RerollDmDone ==
    /\ frames["cmd"].pc = "rr_dm"
    /\ frames' = [frames EXCEPT !["cmd"] =
                     [Reply(frames["cmd"].gid, "reroll") EXCEPT
                         !.pick = frames["cmd"].pick]]
    /\ UNCHANGED <<store, now, bot_guilds, members, pending, calls,
                   eligible_at_draw, verdict>>

\* !giveaway results, lines 466-501
GiveawayResults(g, guild_id) ==
    /\ Quiet
    /\ frames["cmd"].pc = "idle"
    /\ guild_id \in bot_guilds
    /\ frames' = [frames EXCEPT !["cmd"] =
                     IF Rejection(g, guild_id) # ""
                     THEN Reply(g, Rejection(g, guild_id))
                     ELSE Reply(g, "results")]
    /\ UNCHANGED <<store, now, bot_guilds, members, pending, calls,
                   eligible_at_draw, verdict>>

\* ctx.send of the command's reply returns; the command is over
ReplyDone ==
    /\ frames["cmd"].pc = "reply"
    /\ frames' = [frames EXCEPT !["cmd"] = IdleFrame]
    /\ UNCHANGED <<store, now, bot_guilds, members, pending, calls,
                   eligible_at_draw, verdict>>

\* !giveaway start, lines 324-334: the reason of the rejection, "" if the
\* request is accepted
ValidateNoWinnerCount(title, duration_minutes, winner_count) ==
    IF title = "" THEN "no title"
    ELSE IF duration_minutes < 1 \/ duration_minutes > MaxDurationMinutes
    THEN "bad duration"
    ELSE ""

Validate(title, duration_minutes, winner_count) ==
    IF title = "" THEN "no title"
    ELSE IF duration_minutes < 1 \/ duration_minutes > MaxDurationMinutes
    THEN "bad duration"
    ELSE IF winner_count < 1 \/ winner_count > MaxWinners
    THEN "bad winner count"
    ELSE ""

\* !giveaway start, lines 315-359.  The clock counts minutes (the period of
\* the scan), so duration_seconds = duration_minutes * 60 is duration_minutes
\* ticks.  The row is inserted before the giveaway message is sent; the
\* command then replies that the giveaway started or, when the message could
\* not be sent, that it failed to start
StartGiveaway(g, title, duration_minutes, winner_count) ==
    /\ Quiet
    /\ frames["cmd"].pc = "idle"
    /\ FreshId(g)
    /\ HomeGuild \in bot_guilds
    /\ LET reason == Validate(title, duration_minutes, winner_count)
           args == <<title, duration_minutes, winner_count>>
       IN IF reason # ""
          THEN /\ frames' = [frames EXCEPT !["cmd"] =
                                [Reply("", reason) EXCEPT !.args = args]]
               /\ UNCHANGED giveaways
          ELSE /\ giveaways' =
                    [id \in DOMAIN giveaways \cup {g} |->
                        IF id = g
                        THEN NewGiveaway(HomeGuild, winner_count,
                                         [i \in 1..winner_count |-> title],
                                         duration_minutes, NoRules)
                        ELSE giveaways[id]]
               /\ \E msg \in {"started", "failed to start"} :
                     frames' = [frames EXCEPT !["cmd"] =
                                   [Reply(g, msg) EXCEPT !.args = args]]
    /\ UNCHANGED <<entries, winners, now, bot_guilds, members, pending, calls,
                   eligible_at_draw, verdict>>

\* --------------------------------------------------- the ledger, directly
\* a button press is delivered: the handler starts and suspends in
\* interaction.response.defer (line 31)
Deliver(g, u) ==
    /\ Quiet
    /\ u \in DOMAIN members
    /\ Len(pending[<<g, u>>]) < MaxPending
    /\ pending' = [pending EXCEPT ![<<g, u>>] = Append(@, Weight(g, u))]
    /\ UNCHANGED <<store, now, bot_guilds, members, frames, calls,
                   eligible_at_draw, verdict>>

\* a suspended press resumes and runs lines 33-49
EnterResume(g, u) ==
    /\ Quiet
    /\ pending[<<g, u>>] # <<>>
    /\ u \in DOMAIN members
    /\ Weight(g, u) < MaxLedgerWeight
    /\ pending' = [pending EXCEPT ![<<g, u>>] = Tail(@)]
    /\ entries' = EnterOutcome(g, u, Head(pending[<<g, u>>])).entries
    /\ calls' = [calls EXCEPT ![<<g, u>>] =
                    @ \o EnterOutcome(g, u, Head(pending[<<g, u>>])).added]
    /\ UNCHANGED <<giveaways, winners, now, bot_guilds, members, frames,
                   eligible_at_draw, verdict>>

\* db.add_entry(giveaway_id, user_id, bonus_count) called on the store
AddEntryCall(g, u, bonus_count) ==
    /\ Quiet
    /\ Weight(g, u) + bonus_count <= MaxLedgerWeight
    /\ entries' = AddEntry(entries, g, u, bonus_count)
    /\ calls' = [calls EXCEPT ![<<g, u>>] =
                    Append(@, [bonus_count |-> bonus_count, seen |-> Weight(g, u)])]
    /\ UNCHANGED <<giveaways, winners, now, bot_guilds, members, frames, pending,
                   eligible_at_draw, verdict>>

\* ------------------------------------------- check_eligibility, directly
\* check_eligibility(user, giveaway) is called with a discord.Member of the
\* guild or with a discord.User
Evaluate(g, u, kind) ==
    /\ Quiet
    /\ g \in DOMAIN giveaways
    /\ kind = "Member" => u \in DOMAIN members
    /\ LET user == IF kind = "Member" THEN CHOOSE m \in GetMember(u) : TRUE
                   ELSE [kind |-> "User", id |-> u]
       IN verdict' = [giveaway_id |-> g, user_id |-> u, kind |-> kind,
                      res |-> CheckEligibility(user, giveaways[g])]
    /\ UNCHANGED <<store, now, bot_guilds, members, frames, pending, calls,
                   eligible_at_draw>>

\* ------------------------------------------------------ the specification
MainIds == {"g1"}

MainRules ==
    {NoRules,
     [NoRules EXCEPT !.requires_roles = {"r1"}],
     [NoRules EXCEPT !.whitelist_users = {"u1", "u2"}, !.blacklist_users = {"u2"}]}

Next ==
    \/ Tick
    \/ \E u \in Users : MemberRemove(u)
    \/ \E u \in Users, roles \in SUBSET Roles : MemberUpdate(u, roles)
    \/ \E g \in MainIds, winner_count \in 1..MaxWinnerCount, prizes \in PrizeLists,
          duration \in Durations, rules \in MainRules :
          /\ Len(prizes) <= winner_count
          /\    CreateGiveaway(g, HomeGuild, winner_count, prizes, duration, rules)
    \/ \E g \in GiveawayIds, u \in Users : EnterButton(g, u)
    \/ CheckGiveaways
    \/ ScanStep
    \/ \E t \in Tasks : DrawIteration(t)
    \/ \E t \in Tasks : DmDone(t)
    \/ \E t \in Tasks : PostDone(t)
    \/ \E g \in GiveawayIds, guild_id \in Guilds : EndGiveawayCmd(g, guild_id)
    \/ \E g \in GiveawayIds, guild_id \in Guilds : RerollGiveaway(g, guild_id)
    \/ RerollDmDone
    \/ \E g \in GiveawayIds, guild_id \in Guilds : GiveawayResults(g, guild_id)
    \/ ReplyDone

Spec == Init /\ [][Next]_vars

\* the entry ledger: presses delivered concurrently and direct add_entry calls
LedgerIds == {"g1"}

NextLedger ==
    \/ \E g \in LedgerIds, rules \in MainRules :
          CreateGiveaway(g, HomeGuild, 1, <<"A">>, 1, rules)
    \/ \E g \in LedgerIds, u \in Users : Deliver(g, u)
    \/ \E g \in LedgerIds, u \in Users : EnterResume(g, u)
    \/ \E g \in LedgerIds, u \in Users, bonus_count \in 1..MaxBonus :
          AddEntryCall(g, u, bonus_count)

SpecLedger == Init /\ [][NextLedger]_vars

\* the eligibility evaluator on every rule set and candidate
AllRules ==
    [requires_roles : SUBSET Roles, exclude_roles : SUBSET Roles,
     min_account_age_days : 0..MaxAgeDays, min_server_join_days : 0..MaxAgeDays,
     whitelist_users : SUBSET Users, blacklist_users : SUBSET Users]

Joined == {{}} \cup {{d} : d \in 0..MaxAgeDays}

Candidates == [roles : SUBSET Roles, account_age : 0..MaxAgeDays, joined : Joined]

InitElig ==
    /\ InitStore
    /\ bot_guilds \in {Guilds, {}}
    /\ \/ members = [u \in {"u2"} |-> Member({}, MaxAgeDays, {MaxAgeDays})]
       \/ \E c \in Candidates :
             members = [u \in Users |-> IF u = "u1" THEN c
                                        ELSE Member({}, MaxAgeDays, {MaxAgeDays})]

NextElig ==
    \/ \E rules \in AllRules :
          /\ bot_guilds # {}
          /\ CreateGiveaway("g1", HomeGuild, 1, <<"A">>, 1, rules)
    \/ \E u \in Users, kind \in {"Member", "User"} : Evaluate("g1", u, kind)

SpecElig == InitElig /\ [][NextElig]_vars

\* the periodic scan over rows found in the store: two giveaways of the home
\* guild, each ending at 1 or 2 and with paused_at NULL or set.  paused_at is
\* a column of the table (database_manager.py line 56) that check_giveaways
\* reads (line 84) and update_giveaway accepts (line 216)
ScanDurations == {1, 2}

StoredRows ==
    {[NewGiveaway(HomeGuild, 1, <<"A">>, duration, NoRules) EXCEPT !.paused_at = paused_at] :
        duration \in ScanDurations, paused_at \in {{}, {0}}}

InitScan ==
    /\ now = 0
    /\ giveaways \in [GiveawayIds -> StoredRows]
    /\ entries = <<>>
    /\ winners = <<>>
    /\ frames = [t \in Tasks |-> IdleFrame]
    /\ pending = [p \in Pairs |-> <<>>]
    /\ calls = [p \in Pairs |-> <<>>]
    /\ eligible_at_draw = [g \in GiveawayIds |-> {}]
    /\ verdict = [giveaway_id |-> "", user_id |-> "", kind |-> "",
                  res |-> Return(TRUE, "")]
    /\ bot_guilds = Guilds
    /\ members = [u \in Users |-> Member({}, MaxAgeDays, {MaxAgeDays})]

NextScan ==
    \/ Tick
    \/ \E g \in GiveawayIds : EnterButton(g, "u1")
    \/ CheckGiveaways
    \/ ScanStep
    \/ DrawIteration("timer")
    \/ DmDone("timer")
    \/ PostDone("timer")

SpecScan == InitScan /\ [][NextScan]_vars

\* the scan under its scheduling: tasks.loop(minutes=1) starts the next scan
\* a minute after the last one returned (line 72), the code between two
\* awaits runs to the next await, and the awaited sends of a draw return or
\* raise
SpecScanFair ==
    /\ SpecScan
    /\ WF_vars(CheckGiveaways)
    /\ WF_vars(ScanStep)
    /\ WF_vars(DrawIteration("timer"))
    /\ WF_vars(DmDone("timer"))
    /\ WF_vars(PostDone("timer"))

\* the start command on valid and invalid arguments
Titles == {"", "T"}

StartDurations == {0, 1, MaxDurationMinutes, MaxDurationMinutes + 1}

StartWinnerCounts == {0, 1, MaxWinners, MaxWinners + 1}

NextCreate ==
    \/ Tick
    \/ \E g \in GiveawayIds, title \in Titles, duration_minutes \in StartDurations,
          winner_count \in StartWinnerCounts :
          StartGiveaway(g, title, duration_minutes, winner_count)
    \/ ReplyDone

SpecCreate == Init /\ [][NextCreate]_vars

\* the scan with a store whose UPDATE of the status may fail.  A failure is
\* injected only while fewer than MaxFaultRows Winner rows are stored
NextFault ==
    \/ Tick
    \/ \E rules \in MainRules : CreateGiveaway("g1", HomeGuild, 1, <<"A">>, 1, rules)
    \/ \E u \in Users : EnterButton("g1", u)
    \/ \E u \in Users : MemberRemove(u)
    \/ CheckGiveaways
    \/ \E write_ok \in BOOLEAN :
          /\ write_ok \/ Len(winners) < MaxFaultRows
          /\ ScanStepIn(write_ok)
    \/ DrawIteration("timer")
    \/ DmDone("timer")
    \/ PostDone("timer")

SpecFault == Init /\ [][NextFault]_vars

\* the bot process stops while a task is in flight and is started again
\* (giveaway.py lines 59-65: the cog is constructed anew and its loops are
\* started): the tasks and their local variables are gone, the SQLite file
\* keeps every committed row
Crash ==
    /\ \E t \in Tasks : frames[t].pc # "idle"
    /\ frames' = [t \in Tasks |-> IdleFrame]
    /\ UNCHANGED <<store, now, bot_guilds, members, pending, calls,
                   eligible_at_draw, verdict>>

\* scan, manual end and entries on a giveaway without eligibility rules whose
\* entrants stay in the guild, with a process that may be restarted
NextCrash ==
    \/ Tick
    \/ \E winner_count \in 1..MaxWinnerCount :
          CreateGiveaway("g1", HomeGuild, winner_count, <<"A">>, 1, NoRules)
    \/ \E u \in Users : EnterButton("g1", u)
    \/ CheckGiveaways
    \/ ScanStep
    \/ EndGiveawayCmd("g1", HomeGuild)
    \/ \E t \in Tasks : DrawIteration(t) \/ DmDone(t) \/ PostDone(t)
    \/ ReplyDone
    \/ Crash

SpecCrash == Init /\ [][NextCrash]_vars


\* the bot starts with a stored giveaway whose end time has passed and that
\* no scan has ended yet: a row created one minute before the start that
\* lasted one minute.  Entries, the scan and the manual end follow
LateRows ==
    {[NewGiveaway(HomeGuild, winner_count, <<"A">>, 1, NoRules) EXCEPT
         !.created_at = now - 1, !.ends_at = now] :
        winner_count \in 1..MaxWinnerCount}

InitLate ==
    /\ now = 0
    /\ giveaways \in [MainIds -> LateRows]
    /\ entries = <<>>
    /\ winners = <<>>
    /\ frames = [t \in Tasks |-> IdleFrame]
    /\ pending = [p \in Pairs |-> <<>>]
    /\ calls = [p \in Pairs |-> <<>>]
    /\ eligible_at_draw = [g \in GiveawayIds |-> {}]
    /\ verdict = [giveaway_id |-> "", user_id |-> "", kind |-> "",
                  res |-> Return(TRUE, "")]
    /\ bot_guilds = Guilds
    /\ members = [u \in Users |-> Member({}, MaxAgeDays, {MaxAgeDays})]

NextLate ==
    \/ \E g \in MainIds, u \in Users : EnterButton(g, u)
    \/ CheckGiveaways
    \/ ScanStep
    \/ \E g \in MainIds : EndGiveawayCmd(g, HomeGuild)
    \/ \E t \in Tasks : DrawIteration(t) \/ DmDone(t) \/ PostDone(t)
    \/ ReplyDone

SpecLate == InitLate /\ [][NextLate]_vars

\* ================================================================ claims
Stored == DOMAIN giveaways

Entrants(g) == {u \in Users : Weight(g, u) > 0}

WinnerIds(g) == {WinnerRows(g)[i].user_id : i \in DOMAIN WinnerRows(g)}

NoDrawInProgress(g) ==
    \A t \in Tasks : frames[t].gid = g => frames[t].pc \notin {"loop", "dm"}

EndGiveawayCalled(g) ==
    \/ \E guild_id \in Guilds : Rejection(g, guild_id) = "" /\ EndGiveawayCmd(g, guild_id)
    \/ /\ frames["timer"].pc = "scan"
       /\ frames["timer"].queue # <<>>
       /\ Head(frames["timer"].queue).giveaway_id = g
       /\ now >= Head(frames["timer"].queue).ends_at
       /\ Head(frames["timer"].queue).paused_at = {}
       /\ ScanStep

\* C3: a call of end_giveaway on a giveaway whose status is already 'ended'
\* leaves the giveaway row (status, ended_at), the entries and the Winner
\* rows as they were and starts no draw.
C3_EndIsIdempotent ==
    [][\A g \in Stored :
          (giveaways[g].status = "ended" /\ EndGiveawayCalled(g))
          => /\ UNCHANGED <<giveaways, entries, winners>>
             /\ \A t \in Tasks : frames'[t].pc \notin {"loop", "dm", "post"}
                                 \/ frames'[t] = frames[t]]_vars

\* a manual end has returned while the scan's draw of the same giveaway,
\* already marked 'ended', is suspended after its first winner
C3_Witness ==
    /\ frames["timer"].pc = "dm" /\ frames["timer"].gid = "g1"
    /\ frames["cmd"].pc = "reply" /\ frames["cmd"].msg = "ended"
    /\ frames["cmd"].gid = "g1"
    /\ Len(WinnerRows("g1")) = 1

\* C6: a Winner row is only ever written for a participant who, when it is
\* written, is a member of the guild and passes check_eligibility.
C6_WinnersEligibleAtDraw ==
    [][winners' # winners =>
          /\ Len(winners') = Len(winners) + 1
          /\ LET w == winners'[Len(winners')] IN
             /\ SubSeq(winners', 1, Len(winners)) = winners
             /\ GetGuild(giveaways[w.giveaway_id].guild_id) # {}
             /\ GetMember(w.user_id) # {}
             /\ CheckEligibility(CHOOSE m \in GetMember(w.user_id) : TRUE,
                                 giveaways[w.giveaway_id])
                  = Return(TRUE, "")]_vars

\* a finished draw that gave a Winner row to one entrant and none to another
\* whose Entry row is still stored and who never passed the draw-time check
C6_Witness ==
    /\ "g1" \in Stored
    /\ giveaways["g1"].status = "ended" /\ NoDrawInProgress("g1")
    /\ WinnerIds("g1") # {}
    /\ \E u \in Entrants("g1") : u \notin eligible_at_draw["g1"] /\ u \notin WinnerIds("g1")

\* C7: the positions of a giveaway's Winner rows are 1..k.
C7_PositionsContiguous ==
    \A g \in GiveawayIds :
        {WinnerRows(g)[i].position : i \in DOMAIN WinnerRows(g)}
            = 1..Len(WinnerRows(g))

\* C8: the i-th Winner row written for a giveaway carries prize_list[i], and
\* the last prize of the list once i is past its length.
C8_PrizeByAcceptanceOrder ==
    \A g \in Stored :
        \A i \in DOMAIN WinnerRows(g) :
            WinnerRows(g)[i].prize = PrizeFor(giveaways[g].prizes, i - 1)

RECURSIVE SumBonus(_)
SumBonus(cs) == IF cs = <<>> THEN 0 ELSE Head(cs).bonus_count + SumBonus(Tail(cs))

WeightIn(tbl, g, u) ==
    LET rows == EntryRows(tbl, g, u) IN
    IF rows = {} THEN 0 ELSE tbl[CHOOSE i \in rows : TRUE].entry_count

\* C4: a (giveaway, participant) pair never has more than one Entry row, and
\* the weight of that row is the sum of the bonus counts of the add_entry
\* calls made for the pair.
C4_OneRowSummedWeight ==
    \A p \in Pairs :
        /\ Cardinality(EntryRows(entries, p[1], p[2])) <= 1
        /\ Weight(p[1], p[2]) = SumBonus(calls[p])

\* two add_entry calls for one pair, the second made on top of the row the
\* first one inserted
C4_Witness ==
    /\ Len(calls[<<"g1", "u1">>]) = 2
    /\ calls[<<"g1", "u1">>][2].seen = 1
    /\ Cardinality(EntryRows(entries, "g1", "u1")) = 1
    /\ Weight("g1", "u1") = 2

\* C5: when submissions of one participant to one giveaway are in flight
\* together, each one that reaches add_entry adds exactly its bonus to the
\* weight the store holds at that moment and leaves one row: no update is
\* lost and no second row appears, whatever the store held when the
\* submission was delivered.
C5_ConcurrentEntriesAtomic ==
    [][\A p \in Pairs :
         (Len(pending'[p]) < Len(pending[p]) /\ calls'[p] # calls[p])
         => /\ WeightIn(entries', p[1], p[2]) = Weight(p[1], p[2]) + 1
            /\ Cardinality(EntryRows(entries', p[1], p[2])) = 1]_vars

\* two presses were delivered while the pair had no row, both have run, and
\* the one row holds weight 2
C5_Witness ==
    /\ calls[<<"g1", "u1">>] = <<[bonus_count |-> 1, seen |-> 0],
                                 [bonus_count |-> 1, seen |-> 0]>>
    /\ pending[<<"g1", "u1">>] = <<>>
    /\ Cardinality(EntryRows(entries, "g1", "u1")) = 1
    /\ Weight("g1", "u1") = 2

\* the candidate of the last evaluation, as a Member, when the evaluator had
\* one to check: it was given a Member, or resolved the User in the guild
Evaluated ==
    IF verdict.user_id = "" THEN {}
    ELSE IF verdict.kind = "User" /\ GetGuild(giveaways[verdict.giveaway_id].guild_id) = {}
    THEN {}
    ELSE GetMember(verdict.user_id)

\* C9: a candidate on the blacklist is ineligible, whitelisted or not.
C9_BlacklistedIneligible ==
    (/\ verdict.user_id # ""
     /\ verdict.user_id \in giveaways[verdict.giveaway_id].blacklist_users)
    => (verdict.res.kind = "return" /\ ~verdict.res.eligible)

\* a member on both lists was evaluated and rejected for the blacklist
C9_Witness ==
    /\ verdict.user_id = "u1" /\ verdict.kind = "Member"
    /\ "u1" \in giveaways["g1"].whitelist_users
    /\ "u1" \in giveaways["g1"].blacklist_users
    /\ verdict.res = Return(FALSE, "blacklisted")

\* does the named check reject member m under the rules of giveaway g
Fails(check, m, g) ==
    CASE check = "blacklisted" ->
           g.blacklist_users # {} /\ m.id \in g.blacklist_users
      [] check = "not whitelisted" ->
           g.whitelist_users # {} /\ m.id \notin g.whitelist_users
      [] check = "no required role" ->
           g.requires_roles # {} /\ g.requires_roles \cap m.roles = {}
      [] check = "excluded role" ->
           g.exclude_roles \cap m.roles # {}
      [] check = "account too new" ->
           m.account_age < g.min_account_age_days
      [] check = "joined too recently" ->
           \E join_age \in m.joined : join_age < g.min_server_join_days

\* the reason of the first check of the order that rejects m, "" if none does
FirstFailing(order, m, g) ==
    LET failing == {i \in DOMAIN order : Fails(order[i], m, g)} IN
    IF failing = {} THEN ""
    ELSE order[CHOOSE i \in failing : \A j \in failing : i <= j]

ReasonFollows(order) ==
    \A m \in Evaluated :
        LET first == FirstFailing(order, m, giveaways[verdict.giveaway_id]) IN
        /\ first # "" => verdict.res = Return(FALSE, first)
        /\ (first = "" /\ verdict.res.kind = "return") => verdict.res = Return(TRUE, "")

\* C10 as stated: the checks run in the order blacklist, whitelist, required
\* roles, excluded roles, account age, membership age, and the rejection
\* carries the reason of the first one that fails.
C10_ReasonInStatedOrder ==
    ReasonFollows(<<"blacklisted", "not whitelisted", "no required role",
                    "excluded role", "account too new", "joined too recently">>)

\* C10: the checks run in the order whitelist, blacklist, required roles,
\* excluded roles, account age, membership age, and the rejection carries the
\* reason of the first one that fails.
C10_ReasonInCodeOrder ==
    ReasonFollows(<<"not whitelisted", "blacklisted", "no required role",
                    "excluded role", "account too new", "joined too recently">>)

\* a blacklisted member missing from a non-empty whitelist was rejected for
\* the whitelist
C10_Witness ==
    /\ verdict.user_id = "u1" /\ verdict.kind = "Member"
    /\ giveaways["g1"].whitelist_users = {"u2"}
    /\ "u1" \in giveaways["g1"].blacklist_users
    /\ verdict.res = Return(FALSE, "not whitelisted")

\* C11: when the giveaway sets a minimum membership age and the candidate has
\* no join timestamp, check_eligibility returns a result (it does not raise),
\* and the result is eligible if every other check passes.
C11_NoJoinTimestampPasses ==
    \A m \in Evaluated :
        LET g == giveaways[verdict.giveaway_id] IN
        (g.min_server_join_days # 0 /\ m.joined = {})
        => /\ verdict.res.kind = "return"
           /\ (\A check \in {"not whitelisted", "blacklisted", "no required role",
                              "excluded role", "account too new"} : ~Fails(check, m, g))
              => verdict.res.eligible

\* C12: end_giveaway on an active giveaway without entries marks it 'ended',
\* writes no Winner row, starts no selection loop and, when it announces,
\* announces that no one entered.
C12_NoEntriesEndsQuietly ==
    [][\A g \in Stored :
          (giveaways[g].status = "active" /\ GetEntries(g) = <<>> /\ EndGiveawayCalled(g))
          => /\ giveaways'[g].status = "ended"
             /\ winners' = winners /\ entries' = entries
             /\ \A t \in Tasks :
                   \/ frames'[t] = frames[t]
                   \/ /\ frames'[t].pc \notin {"loop", "dm"}
                      /\ frames'[t].pc = "post" => frames'[t].msg = "no one entered"]_vars

\* the scan ended a giveaway nobody entered and is sending the announcement
C12_Witness ==
    /\ frames["timer"].pc = "post" /\ frames["timer"].gid = "g1"
    /\ frames["timer"].msg = "no one entered"
    /\ giveaways["g1"].status = "ended"
    /\ GetEntries("g1") = <<>> /\ WinnerRows("g1") = <<>>

\* C13: a giveaway whose status is 'ended' stays stored with status 'ended'
\* through every step: scan, manual end, entry, reroll, results, create.
C13_EndedIsTerminal ==
    [][\A g \in Stored :
          giveaways[g].status = "ended"
          => g \in DOMAIN giveaways' /\ giveaways'[g].status = "ended"]_vars

\* a reroll of an ended giveaway has drawn a member and is posting its result
C13_Witness ==
    /\ frames["cmd"].pc = "reply" /\ frames["cmd"].msg = "reroll"
    /\ frames["cmd"].gid = "g1" /\ frames["cmd"].pick \in Users
    /\ giveaways["g1"].status = "ended"

\* C14: the scan changes a giveaway's status only when the stored row is
\* active, the clock has reached its ends_at and its paused_at is not set.
C14_ScanEndsOnlyDue ==
    [][\A g \in Stored :
          (frames["timer"].pc = "scan" /\ giveaways'[g].status # giveaways[g].status)
          => /\ giveaways[g].status = "active"
             /\ now >= giveaways[g].ends_at
             /\ giveaways[g].paused_at = {}]_vars

\* a scan is over: it ended g1 and left g2, expired as well but paused
C14_Witness ==
    /\ frames["timer"].pc = "scan" /\ frames["timer"].queue = <<>>
    /\ giveaways["g1"].status = "ended"
    /\ giveaways["g2"].status = "active"
    /\ giveaways["g2"].paused_at # {}
    /\ now >= giveaways["g2"].ends_at

\* C15: when a scan has gone through the rows it read, every giveaway it read
\* as active, expired and not paused is ended, whether or not the
\* termination of another one failed on the way.
C15_FailureDoesNotStopScan ==
    (frames["timer"].pc = "scan" /\ frames["timer"].queue = <<>>)
    => \A g \in frames["timer"].found : giveaways[g].status = "ended"

\* a scan is over in which the termination of both giveaways failed: the
\* second was terminated after the failure of the first
C15_Witness ==
    /\ frames["timer"].pc = "scan" /\ frames["timer"].queue = <<>>
    /\ frames["timer"].found = {"g1", "g2"}
    /\ frames["timer"].failed = {"g1", "g2"}
    /\ giveaways["g1"].status = "ended" /\ giveaways["g2"].status = "ended"

\* C16: a step that completes a notification (a winner's DM or the channel
\* announcement), delivered or not, changes nothing in the store: the
\* giveaway stays 'ended' and the accepted winners keep their rows.  After a
\* DM the draw goes on with the next slot, or to the announcement after the
\* last one, and it does not end in the except clause.
C16_NotificationFailureHarmless ==
    [][\A t \in Tasks :
          (frames[t].pc \in {"dm", "post"} /\ frames'[t] # frames[t])
          => LET f == frames[t]
                 nf == frames'[t]
             IN /\ UNCHANGED <<giveaways, entries, winners>>
                /\ giveaways[f.gid].status = "ended"
                /\ f.pc = "dm" =>
                      /\ \A u \in f.selected : u \in WinnerIds(f.gid)
                      /\ f.gid \notin nf.failed
                      /\ IF f.position + 1 < f.target
                         THEN nf.pc = "loop" /\ nf.position = f.position + 1
                              /\ nf.selected = f.selected
                         ELSE nf.pc \in {"post", "scan", "reply"}]_vars

\* the DM to a winner raised, the draw went on to the second slot, and both
\* winners are stored while the announcement is being sent
C16_Witness ==
    \E t \in Tasks :
        /\ frames[t].pc = "post" /\ frames[t].dm_failed
        /\ frames[t].gid = "g1" /\ frames[t].msg = "winners"
        /\ giveaways["g1"].status = "ended"
        /\ Len(WinnerRows("g1")) = 2

\* C17: a start request without a title, with a duration outside 1..10080
\* minutes or with a winner_count outside 1..10 is answered with a reason and
\* leaves the store as it was; every stored giveaway has winner_count >= 1
\* and ends_at later than created_at.
C17_InvalidCreateRejected ==
    /\ [](\A g \in Stored :
             giveaways[g].winner_count >= 1
             /\ giveaways[g].ends_at > giveaways[g].created_at)
    /\ [][(frames["cmd"].pc = "idle" /\ frames'["cmd"].args # <<>>)
          => LET args == frames'["cmd"].args IN
             (args[1] = "" \/ args[2] \notin 1..10080 \/ args[3] \notin 1..10)
             => /\ UNCHANGED <<giveaways, entries, winners>>
                /\ frames'["cmd"].msg \in {"no title", "bad duration",
                                            "bad winner count"}]_vars

\* one giveaway is stored, and a request for another with a duration of
\* 10081 minutes has been rejected
C17_Witness ==
    /\ frames["cmd"].pc = "reply" /\ frames["cmd"].msg = "bad duration"
    /\ frames["cmd"].args = <<"T", 10081, 1>>
    /\ Stored = {"g1"}

\* C18: for a giveaway id that is not stored, end_giveaway has nothing to
\* end; no Entry or Winner row carries the id, whatever entry submissions
\* named it; and an end, reroll or results command that names it replies
\* "not found" and leaves giveaways, entries and winners as they were.
C18_UnknownIdIsNoOp ==
    /\ [](\A g \in GiveawayIds \ Stored :
             /\ NothingToEnd(g)
             /\ GetEntries(g) = <<>>
             /\ WinnerRows(g) = <<>>)
    /\ [][\A g \in GiveawayIds \ Stored :
             (/\ frames["cmd"].pc = "idle"
              /\ frames'["cmd"].pc # "idle"
              /\ frames'["cmd"].gid = g)
             => /\ UNCHANGED <<giveaways, entries, winners>>
                /\ frames'["cmd"] = Reply(g, "not found")]_vars

\* a command that named the unknown g2 is replying "not found" while g1 is
\* stored with an entry
C18_Witness ==
    /\ frames["cmd"] = Reply("g2", "not found")
    /\ Stored = {"g1"}
    /\ GetEntries("g1") # <<>>

\* C19: once a reroll of an ended giveaway has drawn a member, the Winner
\* rows stored for the giveaway are those of the newly drawn winner.
C19_RerollReplacesWinners ==
    (/\ frames["cmd"].pc = "reply" /\ frames["cmd"].msg = "reroll"
     /\ frames["cmd"].pick \in Users
     /\ giveaways[frames["cmd"].gid].status = "ended")
    => WinnerIds(frames["cmd"].gid) = {frames["cmd"].pick}

\* C20: a giveaway whose status is still 'active' has no Winner row, also
\* when the write that marks it 'ended' failed, and no giveaway holds more
\* Winner rows than its winner_count.
C20_NoWinnersWithoutEndedStatus ==
    \A g \in Stored :
        /\ giveaways[g].status = "active" => WinnerRows(g) = <<>>
        /\ Len(WinnerRows(g)) <= giveaways[g].winner_count

\* C21: a termination interrupted after the status was written 'ended' and
\* before any Winner row was stored is recoverable: a later call of
\* end_giveaway for the ended giveaway, which has entries and no Winner row
\* and no draw in progress, runs the draw.
C21_InterruptedDrawRecoverable ==
    [][\A g \in Stored :
          (/\ giveaways[g].status = "ended"
           /\ GetEntries(g) # <<>>
           /\ WinnerRows(g) = <<>>
           /\ NoDrawInProgress(g)
           /\ EndGiveawayCalled(g))
          => \E t \in Tasks : frames'[t].gid = g /\ frames'[t].pc = "loop"]_vars

\* C22: within one draw the selection is without replacement whatever the
\* draw-time check says: the participant selected in one iteration, accepted
\* or discarded, is not selected again in a later iteration of that draw.
C22_SelectionWithoutReplacement ==
    \A t \in Tasks :
        \A i, j \in DOMAIN frames[t].picks :
            i # j => frames[t].picks[i] # frames[t].picks[j]

\* C23: when every participant the draw selected passed the draw-time check,
\* as is the case when every entrant is an eligible guild member at draw
\* time, the finished draw has stored exactly min(winner_count, number of
\* distinct entrants) Winner rows.
C23_AllEligibleFillsEverySlot ==
    [][\A t \in Tasks :
          (/\ frames[t].pc = "dm"
           /\ frames'[t].pc \notin {"loop", "dm"}
           /\ Len(frames[t].picks) = Cardinality(frames[t].selected))
          => Len(WinnerRows(frames[t].gid)) =
                Min(giveaways[frames[t].gid].winner_count,
                    Cardinality(DistinctUsers(frames[t].entries)))]_vars

\* the draw of a giveaway with two winner slots and one entrant, who was
\* accepted, is posting its result: one Winner row
C23_Witness ==
    /\ frames["cmd"].pc = "post" /\ frames["cmd"].gid = "g1"
    /\ frames["cmd"].picks = <<"u1">>
    /\ giveaways["g1"].winner_count = 2
    /\ Entrants("g1") = {"u1"}
    /\ Len(WinnerRows("g1")) = 1

\* C24: with the scan running every minute, the bot in the giveaway's guild
\* and committed writes, a giveaway that is active, not paused and past its
\* end time eventually has status 'ended'.
C24_DueEventuallyEnded ==
    \A g \in GiveawayIds :
        (/\ giveaways[g].status = "active"
         /\ giveaways[g].paused_at = {}
         /\ now >= giveaways[g].ends_at)
        ~> (giveaways[g].status = "ended")

\* two unpaused giveaways were both ended by the scan, each at or after its
\* end time, and the timer is idle again
C24_Witness ==
    /\ frames["timer"].pc = "idle"
    /\ \A g \in GiveawayIds :
          /\ giveaways[g].paused_at = {}
          /\ giveaways[g].status = "ended"
          /\ \E t \in giveaways[g].ended_at : t >= giveaways[g].ends_at

\* the members that pass check_eligibility for giveaway g now
PassingMembers(g) ==
    {u \in DOMAIN members :
        LET res == CheckEligibility(CHOOSE m \in GetMember(u) : TRUE, giveaways[g])
        IN res.kind = "return" /\ res.eligible}

\* C25: a step changes the entries only by recording the submission of a
\* member who passes check_eligibility for a stored giveaway whose status is
\* 'active'; the entries of a giveaway whose status is 'ended' do not change.
C25_EntryOnlyIfActiveAndEligible ==
    [][/\ entries' # entries
          => \E g \in Stored :
                /\ giveaways[g].status = "active"
                /\ \E u \in PassingMembers(g) : entries' = AddEntry(entries, g, u, 1)
       /\ \A g \in Stored :
             giveaways[g].status = "ended" => GetEntries(g)' = GetEntries(g)]_vars

\* g1 was ended with the entry u1 made while it was active; u2, a member who
\* passes the check, has no entry
C25_Witness ==
    /\ "g1" \in Stored
    /\ giveaways["g1"].status = "ended"
    /\ giveaways["g1"].requires_roles = {}
    /\ Entrants("g1") = {"u1"}
    /\ "u2" \in PassingMembers("g1")
    /\ Quiet

\* the tasks that are in the draw of giveaway g: in its selection loop,
\* suspended in a winner's DM, or suspended in the announcement
Drawing(g) ==
    {t \in Tasks : frames[t].gid = g /\ frames[t].pc \in {"loop", "dm", "post"}}

C27_EndedBeforeAnyWinner ==
    \A g \in GiveawayIds :
        WinnerRows(g) # <<>> => g \in Stored /\ giveaways[g].status = "ended"

\* the scan's draw for two winner slots is suspended in the DM of its first
\* winner: one Winner row is stored and a slot is still to be drawn
C27_Witness ==
    /\ frames["timer"].pc = "dm" /\ frames["timer"].gid = "g1"
    /\ frames["timer"].target = 2 /\ frames["timer"].position = 0
    /\ Len(WinnerRows("g1")) = 1
    /\ giveaways["g1"].status = "ended"

\* C28: the draw and the reroll read the entries and do not write them: a
\* step of end_giveaway or of reroll_giveaway (like every step of a task)
\* leaves the Entry rows and their weights as they were.
C28_DrawLeavesEntries ==
    [][frames' # frames => entries' = entries]_vars

\* a reroll of an ended giveaway that has a Winner row is announcing the
\* member it drew, and both entrants still have their entries
C28_Witness ==
    /\ frames["cmd"].pc = "reply" /\ frames["cmd"].msg = "reroll"
    /\ frames["cmd"].pick \in Users
    /\ giveaways[frames["cmd"].gid].status = "ended"
    /\ Len(WinnerRows(frames["cmd"].gid)) = 1
    /\ Entrants(frames["cmd"].gid) = Users

\* C29: a manual end, a reroll or a results command issued in a guild other
\* than the giveaway's own is answered "not in this server" and leaves the
\* giveaway's status, the entries and the Winner rows unchanged, and starts
\* no draw.
C29_OtherGuildRejected ==
    [][\A g \in Stored, guild_id \in Guilds :
          (/\ guild_id # giveaways[g].guild_id
           /\ \/ EndGiveawayCmd(g, guild_id)
              \/ RerollGiveaway(g, guild_id)
              \/ GiveawayResults(g, guild_id))
          => /\ UNCHANGED <<giveaways, entries, winners>>
             /\ frames'["cmd"] = Reply(g, "not in this server")
             /\ frames'["timer"] = frames["timer"]]_vars

\* a command issued in another guild named g1, which is ended and has a
\* Winner row, and is being answered "not in this server"
C29_Witness ==
    /\ frames["cmd"] = Reply("g1", "not in this server")
    /\ giveaways["g1"].guild_id = HomeGuild
    /\ giveaways["g1"].status = "ended"
    /\ Len(WinnerRows("g1")) = 1

\* C30: the entry is gated on the status and not on the end time: the
\* submission of a member who passes the check for a giveaway that is past
\* its end time and still 'active' is recorded, and a draw works on all the
\* entries stored for its giveaway, those recorded after the end time
\* included.
C30_LateEntryRecordedAndDrawn ==
    /\ \A g \in Stored, u \in Users :
          (/\ giveaways[g].status = "active"
           /\ now >= giveaways[g].ends_at
           /\ u \in PassingMembers(g))
          => EnterOutcome(g, u, Weight(g, u)).entries = AddEntry(entries, g, u, 1)
    /\ \A t \in Tasks :
          frames[t].pc \in {"loop", "dm"}
          => frames[t].entries = GetEntries(frames[t].gid)

\* g1 had reached its end time when the bot started, so u1's entry was
\* recorded after the end time; the scan ended g1 and selected u1, whose
\* Winner row is stored
C30_Witness ==
    /\ giveaways["g1"].ends_at <= 0
    /\ Len(calls[<<"g1", "u1">>]) = 1
    /\ frames["timer"].pc = "dm" /\ frames["timer"].gid = "g1"
    /\ frames["timer"].picks = <<"u1">>
    /\ WinnerIds("g1") = {"u1"}

====
